---- MODULE Spec2Model ----
(***************************************************************************)
(* Model of eye-tracking-pokemon-webapp.py: the gaze classifier            *)
(* get_direction_from_coords, the emulator thread run_game and the Flask   *)
(* request handlers that share the module's global variables.              *)
(*                                                                         *)
(* run_game runs on its own thread (threading.Thread, daemon) and the      *)
(* Flask development server serves each request on a thread of its own,    *)
(* so every read and every write of a global, and every emulator call, is  *)
(* a step of its own that other threads can interleave with.               *)
(***************************************************************************)
EXTENDS Integers, Sequences, FiniteSets, TLC

(* ---- configuration (lines 21-24) ---- *)
SCREEN_WIDTH == 1920
SCREEN_HEIGHT == 1080
DEAD_ZONE == 100

(* ---- bounds of the model ---- *)
MaxRequests == 2      \* requests received in one behaviour
MaxTime == 2          \* largest value of the clock time.time()
MaxDelta == 2         \* classifier inputs: distances within MaxDelta of 0 and of DEAD_ZONE

None == "None"
Directions == {"up", "down", "left", "right"}
Buttons == {"a", "b", "start", "select"}
Handlers == {"h1", "h2"}

Abs(n) == IF n < 0 THEN -n ELSE n

(* ---- get_direction_from_coords (lines 27-44) ---- *)
center_x == SCREEN_WIDTH \div 2
center_y == SCREEN_HEIGHT \div 2

in_dead_zone_Inclusive(x, y) ==
    Abs(x - center_x) <= DEAD_ZONE /\ Abs(y - center_y) <= DEAD_ZONE

in_dead_zone(x, y) == Abs(x - center_x) < DEAD_ZONE /\ Abs(y - center_y) < DEAD_ZONE

get_direction_from_coords_TieHorizontal(x, y) ==
    LET dx == x - center_x
        dy == y - center_y
    IN  IF in_dead_zone(x, y) THEN None
        ELSE IF Abs(dx) >= Abs(dy)
             THEN (IF dx > 0 THEN "right" ELSE "left")
             ELSE (IF dy > 0 THEN "down" ELSE "up")

get_direction_from_coords(x, y) ==
    LET dx == x - center_x
        dy == y - center_y
    IN  IF in_dead_zone(x, y) THEN None
        ELSE IF Abs(dx) > Abs(dy)
             THEN (IF dx > 0 THEN "right" ELSE "left")
             ELSE (IF dy > 0 THEN "down" ELSE "up")

(* ---- the requests the handlers are fed ---- *)
\* gaze points of /eye_data: the centre and the off-centre point of the spec's /eye_data scenario
GazePoints == { <<960, 540>>, <<1200, 540>> }

NoReq == [route |-> "none", json |-> TRUE, numeric |-> TRUE, x |-> 0, y |-> 0,
          action |-> None, direction |-> None, button |-> None]

EyeRequests ==
    { [NoReq EXCEPT !.route = "eye_data", !.x = p[1], !.y = p[2]] : p \in GazePoints }
    \cup { [NoReq EXCEPT !.route = "eye_data", !.json = FALSE],
           [NoReq EXCEPT !.route = "eye_data", !.numeric = FALSE] }

ControlRequests ==
    { [NoReq EXCEPT !.route = "control", !.action = "press", !.direction = d] :
          d \in Directions \cup {"north"} }
    \cup { [NoReq EXCEPT !.route = "control", !.action = "release"] }
    \cup { [NoReq EXCEPT !.route = "control", !.action = "button", !.button = b] :
          b \in Buttons \cup {"x"} }
    \cup { [NoReq EXCEPT !.route = "control", !.action = "jump"],
           [NoReq EXCEPT !.route = "control", !.json = FALSE] }

ToggleRequest == [NoReq EXCEPT !.route = "toggle"]
StatusRequest == [NoReq EXCEPT !.route = "status"]

Requests == EyeRequests \cup ControlRequests \cup {ToggleRequest, StatusRequest}

(* ---- responses (jsonify) ---- *)
NoResp == [status |-> "none", http |-> 0, direction |-> None, x |-> 0, y |-> 0,
           eye_tracking_enabled |-> FALSE, game_running |-> FALSE,
           current_direction |-> None, last_update_null |-> TRUE, last_update |-> 0]

Success == [NoResp EXCEPT !.status = "success", !.http = 200]
Error400 == [NoResp EXCEPT !.status = "error", !.http = 400]

IdleHandler == [pc |-> "idle", req |-> NoReq, new_direction |-> None, tmp |-> FALSE,
                t |-> 0, resp |-> NoResp, calls |-> << >>]

VARIABLES
    pyboy_instance,        \* line 14: None, or the PyBoy object
    current_direction,     \* line 16
    last_eye_update,       \* line 17
    eye_tracking_enabled,  \* line 18
    now,                   \* time.time()
    pc,                    \* position of run_game
    chain,                 \* position in run_game's if/elif chain (1..4), 0 outside
    loop_calls,            \* emulator calls of the current iteration of run_game
    raised,                \* an emulator call of run_game raised: "no", "setup" (line 58), "loop" (lines 61-90)
    stop_calls,            \* number of stop() calls on the emulator
    hs,                    \* the request threads
    nReq,                  \* requests received
    nToggle,               \* /toggle_eye_tracking requests received
    toggle_base,           \* eye_tracking_enabled when the first toggle was received
    lastGaze,              \* gaze point of the /eye_data request received last
    lastWrite,             \* direction asked for by the direction-setting request received last
    raced,                 \* that request was received while another such request was in progress
    dirChanged,            \* current_direction has changed value since start
    eyeChangeAt            \* time of the last direction change /eye_data recorded, 0 if none

globals == <<pyboy_instance, current_direction, last_eye_update, eye_tracking_enabled>>
loopv == <<pc, chain, loop_calls, raised, stop_calls>>
reqGhosts == <<nReq, nToggle, toggle_base, lastGaze, lastWrite, raced>>
ghosts == <<reqGhosts, dirChanged, eyeChangeAt>>
vars == <<globals, now, loopv, hs, ghosts>>

Init ==
    /\ pyboy_instance = None
    /\ current_direction = None
    /\ last_eye_update = 0
    /\ eye_tracking_enabled = FALSE
    /\ now = 1
    /\ pc = "construct"
    /\ chain = 0
    /\ loop_calls = << >>
    /\ raised = "no"
    /\ stop_calls = 0
    /\ hs = [h \in Handlers |-> IdleHandler]
    /\ nReq = 0
    /\ nToggle = 0
    /\ toggle_base = FALSE
    /\ lastGaze = << >>
    /\ lastWrite = None
    /\ raced = FALSE
    /\ dirChanged = FALSE
    /\ eyeChangeAt = 0

(* ---- time.time() advances ---- *)
Clock ==
    /\ now < MaxTime
    /\ now' = now + 1
    /\ UNCHANGED <<globals, loopv, hs, ghosts>>

(***************************************************************************)
(* run_game (lines 46-96)                                                  *)
(***************************************************************************)
ChainOrder == <<"up", "down", "left", "right">>

\* an emulator call of run_game raises: the except clause (lines 92-93) prints
\* the error and control reaches the finally clause
LoopRaise ==
    /\ pc' = "finally"
    /\ chain' = 0
    /\ raised' = IF pc = "set_speed" THEN "setup" ELSE "loop"
    /\ UNCHANGED <<loop_calls, stop_calls>>

\* lines 51-56: PyBoy(...) is bound to pyboy_instance, or raises
Construct ==
    /\ pc = "construct"
    /\ \/ /\ pyboy_instance' = "pyboy"
          /\ pc' = "set_speed"
          /\ UNCHANGED <<chain, loop_calls, raised, stop_calls>>
       \/ /\ pc' = "finally"
          /\ UNCHANGED <<pyboy_instance, chain, loop_calls, raised, stop_calls>>
    /\ UNCHANGED <<current_direction, last_eye_update, eye_tracking_enabled, now, hs, ghosts>>

\* line 58
SetSpeed ==
    /\ pc = "set_speed"
    /\ \/ /\ pc' = "check_enabled"
          /\ UNCHANGED <<chain, loop_calls, raised, stop_calls>>
       \/ LoopRaise
    /\ UNCHANGED <<globals, now, hs, ghosts>>

CheckEnabled_IgnoreFlag ==
    /\ pc = "check_enabled"
    /\ pc' = "check_direction"
    /\ UNCHANGED <<chain, loop_calls, raised, stop_calls, globals, now, hs, ghosts>>

\* line 62, left operand of "and"
CheckEnabled ==
    /\ pc = "check_enabled"
    /\ pc' = IF eye_tracking_enabled THEN "check_direction" ELSE "idle_tick"
    /\ UNCHANGED <<chain, loop_calls, raised, stop_calls, globals, now, hs, ghosts>>

CheckDirection_Wait ==
    /\ pc = "check_direction"
    /\ IF current_direction # None
       THEN pc' = "press" /\ chain' = 1
       ELSE pc' = "check_direction" /\ chain' = 0
    /\ UNCHANGED <<loop_calls, raised, stop_calls, globals, now, hs, ghosts>>

\* line 62, right operand of "and"
CheckDirection ==
    /\ pc = "check_direction"
    /\ IF current_direction # None
       THEN pc' = "press" /\ chain' = 1
       ELSE pc' = "idle_tick" /\ chain' = 0
    /\ UNCHANGED <<loop_calls, raised, stop_calls, globals, now, hs, ghosts>>

\* lines 64-71: one comparison of the if/elif chain, and the send_input it guards
PressArrow ==
    /\ pc = "press"
    /\ IF current_direction = ChainOrder[chain]
       THEN \/ /\ loop_calls' = Append(loop_calls, <<"press", ChainOrder[chain]>>)
               /\ pc' = "tick"
               /\ chain' = 0
               /\ UNCHANGED <<raised, stop_calls>>
            \/ LoopRaise
       ELSE /\ IF chain < 4
               THEN pc' = "press" /\ chain' = chain + 1
               ELSE pc' = "tick" /\ chain' = 0
            /\ UNCHANGED <<loop_calls, raised, stop_calls>>
    /\ UNCHANGED <<globals, now, hs, ghosts>>

\* line 74
PressTick ==
    /\ pc = "tick"
    /\ \/ /\ loop_calls' = Append(loop_calls, <<"tick", "-">>)
          /\ pc' = "release"
          /\ chain' = 1
          /\ UNCHANGED <<raised, stop_calls>>
       \/ LoopRaise
    /\ UNCHANGED <<globals, now, hs, ghosts>>

\* lines 77-84
ReleaseArrow ==
    /\ pc = "release"
    /\ IF current_direction = ChainOrder[chain]
       THEN \/ /\ loop_calls' = Append(loop_calls, <<"release", ChainOrder[chain]>>)
               /\ pc' = "idle_tick"
               /\ chain' = 0
               /\ UNCHANGED <<raised, stop_calls>>
            \/ LoopRaise
       ELSE /\ IF chain < 4
               THEN pc' = "release" /\ chain' = chain + 1
               ELSE pc' = "idle_tick" /\ chain' = 0
            /\ UNCHANGED <<loop_calls, raised, stop_calls>>
    /\ UNCHANGED <<globals, now, hs, ghosts>>

\* line 87
IdleTick ==
    /\ pc = "idle_tick"
    /\ \/ /\ loop_calls' = Append(loop_calls, <<"tick", "-">>)
          /\ pc' = "sleep"
          /\ UNCHANGED <<chain, raised, stop_calls>>
       \/ LoopRaise
    /\ UNCHANGED <<globals, now, hs, ghosts>>

\* line 90, and back to the head of "while True"
Sleep ==
    /\ pc = "sleep"
    /\ pc' = "check_enabled"
    /\ loop_calls' = << >>
    /\ UNCHANGED <<chain, raised, stop_calls, globals, now, hs, ghosts>>

Finally_NoStop ==
    /\ pc = "finally"
    /\ pc' = "done"
    /\ UNCHANGED <<chain, loop_calls, raised, stop_calls, globals, now, hs, ghosts>>

\* lines 94-96
Finally ==
    /\ pc = "finally"
    /\ pc' = "done"
    /\ stop_calls' = IF pyboy_instance # None THEN stop_calls + 1 ELSE stop_calls
    /\ UNCHANGED <<chain, loop_calls, raised, globals, now, hs, ghosts>>

run_game ==
    \/ Construct \/ SetSpeed \/ CheckEnabled \/ CheckDirection \/ PressArrow
    \/ PressTick \/ ReleaseArrow \/ IdleTick \/ Sleep \/ Finally

(***************************************************************************)
(* The request handlers (lines 103-191).  Receive is the arrival of a      *)
(* request on an idle thread together with the handler's first lines,      *)
(* which touch only the request: request.json, data.get(...), and for      *)
(* /eye_data the call of get_direction_from_coords.                        *)
(***************************************************************************)
SetsDirection(r) ==
    \/ r.route = "eye_data" /\ r.json /\ r.numeric
    \/ r.route = "control" /\ r.json /\ r.action = "press" /\ r.direction \in Directions
    \/ r.route = "control" /\ r.json /\ r.action = "release"

\* the value such a request asks current_direction to take
Asked(r) ==
    IF r.route = "eye_data" THEN get_direction_from_coords(r.x, r.y)
    ELSE IF r.action = "press" THEN r.direction
    ELSE None

Busy(h) == hs[h].pc \notin {"idle", "done"}
Writing(h) == Busy(h) /\ SetsDirection(hs[h].req)

KnownDirection_Any(d) == TRUE

\* line 141
KnownDirection(d) == d \in Directions

ParsesGaze_NoTypeCheck(r) == r.json

\* lines 109-114: request.json is a dict and x, y are numbers
ParsesGaze(r) == r.json /\ r.numeric

\* where the handler stands after the lines that touch only the request
Dispatch(r) ==
    IF r.route = "eye_data" THEN
        \* lines 109-114: data is None, or abs(x - center_x) on a non-number, raises
        IF ParsesGaze(r)
        THEN [IdleHandler EXCEPT !.pc = "eye_compare", !.req = r,
                                 !.new_direction = get_direction_from_coords(r.x, r.y)]
        ELSE [IdleHandler EXCEPT !.pc = "done", !.req = r, !.resp = Error400]
    ELSE IF r.route = "control" THEN
        \* lines 136-148
        IF ~r.json THEN [IdleHandler EXCEPT !.pc = "done", !.req = r, !.resp = Error400]
        ELSE IF r.action = "press" THEN
            IF KnownDirection(r.direction)
            THEN [IdleHandler EXCEPT !.pc = "control_press", !.req = r]
            ELSE [IdleHandler EXCEPT !.pc = "done", !.req = r, !.resp = Success]
        ELSE IF r.action = "release"
            THEN [IdleHandler EXCEPT !.pc = "control_release", !.req = r]
        ELSE IF r.action = "button"
            THEN [IdleHandler EXCEPT !.pc = "control_instance", !.req = r]
        ELSE [IdleHandler EXCEPT !.pc = "done", !.req = r, !.resp = Success]
    ELSE IF r.route = "toggle" THEN [IdleHandler EXCEPT !.pc = "toggle_read", !.req = r]
    ELSE [IdleHandler EXCEPT !.pc = "status_game", !.req = r]

\* a request arrives on an idle thread, at most cap requests in a behaviour
Accept(h, r, cap) ==
    /\ hs[h].pc = "idle"
    /\ nReq < cap
    /\ nReq' = nReq + 1
    /\ hs' = [hs EXCEPT ![h] = Dispatch(r)]
    /\ IF r.route = "toggle"
       THEN /\ nToggle' = nToggle + 1
            /\ toggle_base' = IF nToggle = 0 THEN eye_tracking_enabled ELSE toggle_base
       ELSE UNCHANGED <<nToggle, toggle_base>>
    /\ lastGaze' = IF r.route = "eye_data" /\ r.json /\ r.numeric THEN <<r.x, r.y>> ELSE lastGaze
    /\ IF SetsDirection(r)
       THEN /\ lastWrite' = Asked(r)
            /\ raced' = \E g \in Handlers \ {h} : Writing(g)
       ELSE UNCHANGED <<lastWrite, raced>>
    /\ UNCHANGED <<globals, now, loopv, dirChanged, eyeChangeAt>>

Receive(h, r) == Accept(h, r, MaxRequests)

\* the response has been sent; the thread is free again
Return(h) ==
    /\ hs[h].pc = "done"
    /\ hs' = [hs EXCEPT ![h] = IdleHandler]
    /\ UNCHANGED <<globals, now, loopv, ghosts>>

(* ---- receive_eye_data (lines 103-128) ---- *)
EyeCompare_Inverted(h) ==
    /\ hs[h].pc = "eye_compare"
    /\ hs' = [hs EXCEPT ![h].pc = IF hs[h].new_direction = current_direction
                                  THEN "eye_write_direction" ELSE "eye_respond"]
    /\ UNCHANGED <<globals, now, loopv, ghosts>>

\* line 116
EyeCompare(h) ==
    /\ hs[h].pc = "eye_compare"
    /\ hs' = [hs EXCEPT ![h].pc = IF hs[h].new_direction # current_direction
                                  THEN "eye_write_direction" ELSE "eye_respond"]
    /\ UNCHANGED <<globals, now, loopv, ghosts>>

\* line 117
EyeWriteDirection(h) ==
    /\ hs[h].pc = "eye_write_direction"
    /\ current_direction' = hs[h].new_direction
    /\ dirChanged' = (dirChanged \/ current_direction' # current_direction)
    /\ hs' = [hs EXCEPT ![h].pc = "eye_write_time"]
    /\ UNCHANGED <<pyboy_instance, last_eye_update, eye_tracking_enabled, now, loopv,
                   reqGhosts, eyeChangeAt>>

\* line 118
EyeWriteTime(h) ==
    /\ hs[h].pc = "eye_write_time"
    /\ last_eye_update' = now
    /\ eyeChangeAt' = now
    /\ hs' = [hs EXCEPT ![h].pc = "eye_respond"]
    /\ UNCHANGED <<pyboy_instance, current_direction, eye_tracking_enabled, now, loopv,
                   reqGhosts, dirChanged>>

\* lines 120-125
EyeRespond(h) ==
    /\ hs[h].pc = "eye_respond"
    /\ hs' = [hs EXCEPT ![h].pc = "done",
                        ![h].resp = [Success EXCEPT !.direction = current_direction,
                                                    !.x = hs[h].req.x, !.y = hs[h].req.y]]
    /\ UNCHANGED <<globals, now, loopv, ghosts>>

receive_eye_data(h) ==
    EyeCompare(h) \/ EyeWriteDirection(h) \/ EyeWriteTime(h) \/ EyeRespond(h)

(* ---- control (lines 130-170) ---- *)
ControlPress_Timestamp(h) ==
    /\ hs[h].pc = "control_press"
    /\ current_direction' = hs[h].req.direction
    /\ last_eye_update' = now
    /\ dirChanged' = (dirChanged \/ current_direction' # current_direction)
    /\ hs' = [hs EXCEPT ![h].pc = "done", ![h].resp = Success]
    /\ UNCHANGED <<pyboy_instance, eye_tracking_enabled, now, loopv, reqGhosts, eyeChangeAt>>

\* line 142
ControlPress(h) ==
    /\ hs[h].pc = "control_press"
    /\ current_direction' = hs[h].req.direction
    /\ dirChanged' = (dirChanged \/ current_direction' # current_direction)
    /\ hs' = [hs EXCEPT ![h].pc = "done", ![h].resp = Success]
    /\ UNCHANGED <<pyboy_instance, last_eye_update, eye_tracking_enabled, now, loopv,
                   reqGhosts, eyeChangeAt>>

\* line 145
ControlRelease(h) ==
    /\ hs[h].pc = "control_release"
    /\ current_direction' = None
    /\ dirChanged' = (dirChanged \/ current_direction' # current_direction)
    /\ hs' = [hs EXCEPT ![h].pc = "done", ![h].resp = Success]
    /\ UNCHANGED <<pyboy_instance, last_eye_update, eye_tracking_enabled, now, loopv,
                   reqGhosts, eyeChangeAt>>

ControlInstance_NoGuard(h) ==
    /\ hs[h].pc = "control_instance"
    /\ IF hs[h].req.button \in Buttons
       THEN hs' = [hs EXCEPT ![h].pc = "button_press"]
       ELSE hs' = [hs EXCEPT ![h].pc = "done", ![h].resp = Success]
    /\ UNCHANGED <<globals, now, loopv, ghosts>>

\* lines 149-162: the test of pyboy_instance and the choice of the branch
ControlInstance(h) ==
    /\ hs[h].pc = "control_instance"
    /\ IF pyboy_instance # None /\ hs[h].req.button \in Buttons
       THEN hs' = [hs EXCEPT ![h].pc = "button_press"]
       ELSE hs' = [hs EXCEPT ![h].pc = "done", ![h].resp = Success]
    /\ UNCHANGED <<globals, now, loopv, ghosts>>

\* an emulator call of the handler raises: "except Exception" answers 400
HandlerRaise(h) == hs' = [hs EXCEPT ![h].pc = "done", ![h].resp = Error400]

\* lines 151, 155, 159, 163: send_input(PRESS_BUTTON_x)
ButtonPress(h) ==
    /\ hs[h].pc = "button_press"
    /\ \/ hs' = [hs EXCEPT ![h].pc = "button_tick",
                           ![h].calls = Append(@, <<"press", hs[h].req.button>>)]
       \/ HandlerRaise(h)
    /\ UNCHANGED <<globals, now, loopv, ghosts>>

\* lines 152, 156, 160, 164: tick()
ButtonTick(h) ==
    /\ hs[h].pc = "button_tick"
    /\ \/ hs' = [hs EXCEPT ![h].pc = "button_release",
                           ![h].calls = Append(@, <<"tick", "-">>)]
       \/ HandlerRaise(h)
    /\ UNCHANGED <<globals, now, loopv, ghosts>>

ButtonRelease_Forgotten(h) ==
    /\ hs[h].pc = "button_release"
    /\ \/ hs' = [hs EXCEPT ![h].pc = "done", ![h].resp = Success]
       \/ HandlerRaise(h)
    /\ UNCHANGED <<globals, now, loopv, ghosts>>

\* lines 153, 157, 161, 165: send_input(RELEASE_BUTTON_x), then line 167
ButtonRelease(h) ==
    /\ hs[h].pc = "button_release"
    /\ \/ hs' = [hs EXCEPT ![h].pc = "done", ![h].resp = Success,
                           ![h].calls = Append(@, <<"release", hs[h].req.button>>)]
       \/ HandlerRaise(h)
    /\ UNCHANGED <<globals, now, loopv, ghosts>>

control(h) ==
    \/ ControlPress(h) \/ ControlRelease(h) \/ ControlInstance(h)
    \/ ButtonPress(h) \/ ButtonTick(h) \/ ButtonRelease(h)

(* ---- toggle_eye_tracking (lines 172-181) ---- *)
\* line 177, the read of the right-hand side
ToggleRead(h) ==
    /\ hs[h].pc = "toggle_read"
    /\ hs' = [hs EXCEPT ![h].pc = "toggle_write", ![h].tmp = eye_tracking_enabled]
    /\ UNCHANGED <<globals, now, loopv, ghosts>>

ToggleWrite_NoNegation(h) ==
    /\ hs[h].pc = "toggle_write"
    /\ eye_tracking_enabled' = hs[h].tmp
    /\ hs' = [hs EXCEPT ![h].pc = "toggle_respond", ![h].tmp = FALSE]
    /\ UNCHANGED <<pyboy_instance, current_direction, last_eye_update, now, loopv, ghosts>>

\* line 177, the store
ToggleWrite(h) ==
    /\ hs[h].pc = "toggle_write"
    /\ eye_tracking_enabled' = ~hs[h].tmp
    /\ hs' = [hs EXCEPT ![h].pc = "toggle_respond", ![h].tmp = FALSE]
    /\ UNCHANGED <<pyboy_instance, current_direction, last_eye_update, now, loopv, ghosts>>

\* lines 178-181
ToggleRespond(h) ==
    /\ hs[h].pc = "toggle_respond"
    /\ hs' = [hs EXCEPT ![h].pc = "done",
                        ![h].resp = [Success EXCEPT !.eye_tracking_enabled = eye_tracking_enabled]]
    /\ UNCHANGED <<globals, now, loopv, ghosts>>

toggle_eye_tracking(h) == ToggleRead(h) \/ ToggleWrite(h) \/ ToggleRespond(h)

(* ---- status (lines 183-191) ---- *)
\* line 187
StatusGame(h) ==
    /\ hs[h].pc = "status_game"
    /\ hs' = [hs EXCEPT ![h].pc = "status_enabled",
                        ![h].resp = [NoResp EXCEPT !.game_running = (pyboy_instance # None)]]
    /\ UNCHANGED <<globals, now, loopv, ghosts>>

\* line 188
StatusEnabled(h) ==
    /\ hs[h].pc = "status_enabled"
    /\ hs' = [hs EXCEPT ![h].pc = "status_direction",
                        ![h].resp.eye_tracking_enabled = eye_tracking_enabled]
    /\ UNCHANGED <<globals, now, loopv, ghosts>>

\* line 189
StatusDirection(h) ==
    /\ hs[h].pc = "status_direction"
    /\ hs' = [hs EXCEPT ![h].pc = "status_condition",
                        ![h].resp.current_direction = current_direction]
    /\ UNCHANGED <<globals, now, loopv, ghosts>>

\* line 190, the condition "if last_eye_update"
StatusCondition(h) ==
    /\ hs[h].pc = "status_condition"
    /\ IF last_eye_update # 0
       THEN hs' = [hs EXCEPT ![h].pc = "status_clock"]
       ELSE hs' = [hs EXCEPT ![h].pc = "done", ![h].resp.http = 200]
    /\ UNCHANGED <<globals, now, loopv, ghosts>>

\* line 190, time.time()
StatusClock(h) ==
    /\ hs[h].pc = "status_clock"
    /\ hs' = [hs EXCEPT ![h].pc = "status_subtract", ![h].t = now]
    /\ UNCHANGED <<globals, now, loopv, ghosts>>

\* line 190, "- last_eye_update"
StatusSubtract(h) ==
    /\ hs[h].pc = "status_subtract"
    /\ hs' = [hs EXCEPT ![h].pc = "done", ![h].t = 0,
                        ![h].resp.http = 200,
                        ![h].resp.last_update_null = FALSE,
                        ![h].resp.last_update = hs[h].t - last_eye_update]
    /\ UNCHANGED <<globals, now, loopv, ghosts>>

status(h) ==
    \/ StatusGame(h) \/ StatusEnabled(h) \/ StatusDirection(h)
    \/ StatusCondition(h) \/ StatusClock(h) \/ StatusSubtract(h)

Next ==
    \/ Clock
    \/ run_game
    \/ \E h \in Handlers : \E r \in Requests : Receive(h, r)
    \/ \E h \in Handlers : receive_eye_data(h)
    \/ \E h \in Handlers : control(h)
    \/ \E h \in Handlers : toggle_eye_tracking(h)
    \/ \E h \in Handlers : status(h)
    \/ \E h \in Handlers : Return(h)

Spec == Init /\ [][Next]_vars

(***************************************************************************)
(* The classifier on its own: /eye_data requests, handled one at a time,   *)
(* whose gaze points run over a grid around the centre, the edge of the    *)
(* dead zone and the outside of the screen.                                *)
(***************************************************************************)
Near == -MaxDelta .. MaxDelta
OffsetsX == Near \cup { DEAD_ZONE + k : k \in Near } \cup { -(DEAD_ZONE + k) : k \in Near }
            \cup { center_x + 1, -(center_x + 1) }
OffsetsY == Near \cup { DEAD_ZONE + k : k \in Near } \cup { -(DEAD_ZONE + k) : k \in Near }
            \cup { center_y + 1, -(center_y + 1) }
Grid == { <<center_x + a, center_y + b>> : a \in OffsetsX, b \in OffsetsY }
GridRequests == { [NoReq EXCEPT !.route = "eye_data", !.x = p[1], !.y = p[2]] : p \in Grid }

NextClassify ==
    \/ \E r \in GridRequests : Receive("h1", r)
    \/ receive_eye_data("h1")
    \/ Return("h1")

SpecClassify == Init /\ [][NextClassify]_vars

(***************************************************************************)
(* run_game against the requests that set what it polls: the toggle and    *)
(* the direction-setting requests, one request more than in Spec so that   *)
(* a request can arrive after tracking was enabled and a direction set.    *)
(***************************************************************************)
LoopRequests ==
    { ToggleRequest,
      [NoReq EXCEPT !.route = "control", !.action = "release"],
      [NoReq EXCEPT !.route = "control", !.action = "press", !.direction = "up"],
      [NoReq EXCEPT !.route = "control", !.action = "press", !.direction = "left"],
      [NoReq EXCEPT !.route = "eye_data", !.x = 1200, !.y = 540] }

ReceiveLoop(h, r) == Accept(h, r, MaxRequests + 1)

NextLoop ==
    \/ run_game
    \/ \E h \in Handlers : \E r \in LoopRequests : ReceiveLoop(h, r)
    \/ \E h \in Handlers : receive_eye_data(h)
    \/ \E h \in Handlers : ControlPress(h) \/ ControlRelease(h)
    \/ \E h \in Handlers : toggle_eye_tracking(h)
    \/ \E h \in Handlers : Return(h)

SpecLoop == Init /\ [][NextLoop]_vars

\* the scheduler lets the thread of run_game run
SpecLoopFair == SpecLoop /\ WF_vars(run_game)

(***************************************************************************)
(* Properties                                                              *)
(***************************************************************************)
Stepped(h) == hs'[h] # hs[h]
Quiet == \A h \in Handlers : ~Busy(h)
WellFormedGaze(r) == r.route = "eye_data" /\ r.json /\ r.numeric

\* C1 (as stated): whenever no request is being handled, current_direction is
\* the classifier's output for the gaze point received last, and None if no
\* gaze point was ever received.
C1_LatestGazeDecides ==
    Quiet => current_direction = IF lastGaze = << >> THEN None
                                 ELSE get_direction_from_coords(lastGaze[1], lastGaze[2])

\* C1 (amended): whenever no direction-setting request (/eye_data, /control
\* press with a known direction, /control release) is being handled and the
\* one received last did not overlap another one, current_direction is the
\* value that request asked for: the classifier's output for /eye_data, the
\* given direction for press, None for release; None if there was no such
\* request.
C1_LastSetterDecides ==
    ((\A h \in Handlers : ~Writing(h)) /\ ~raced) => current_direction = lastWrite

\* a gaze point was classified to a direction and that direction is in force
C1_Witness ==
    /\ Quiet /\ ~raced
    /\ lastGaze = <<1200, 540>>
    /\ lastWrite = "right"
    /\ current_direction = "right"

\* C2: a gaze point strictly within DEAD_ZONE of the centre on both axes is
\* classified None; any other gaze point, one at distance exactly DEAD_ZONE on
\* an axis included, is classified to a direction.
C2_DeadZone ==
    \A h \in Handlers :
        (WellFormedGaze(hs[h].req) /\ hs[h].pc = "eye_compare") =>
            LET ax == Abs(hs[h].req.x - SCREEN_WIDTH \div 2)
                ay == Abs(hs[h].req.y - SCREEN_HEIGHT \div 2)
            IN  IF ax < DEAD_ZONE /\ ay < DEAD_ZONE
                THEN hs[h].new_direction = None
                ELSE hs[h].new_direction \in Directions

\* a point exactly DEAD_ZONE right of the centre has been classified
C2_Witness ==
    \E h \in Handlers :
        /\ hs[h].pc = "eye_compare"
        /\ hs[h].req.x = SCREEN_WIDTH \div 2 + DEAD_ZONE
        /\ hs[h].req.y = SCREEN_HEIGHT \div 2 + (DEAD_ZONE - 1)
        /\ hs[h].new_direction = "right"

\* C3: outside the dead zone the classifier answers right / left when
\* |dx| > |dy| (by the sign of dx) and down / up when |dx| <= |dy| (by the
\* sign of dy), for points outside the screen too; a diagonal tie is up or down.
C3_Quadrants ==
    \A h \in Handlers :
        (WellFormedGaze(hs[h].req) /\ hs[h].pc = "eye_compare") =>
            LET dx == hs[h].req.x - SCREEN_WIDTH \div 2
                dy == hs[h].req.y - SCREEN_HEIGHT \div 2
                d  == hs[h].new_direction
            IN  (Abs(dx) >= DEAD_ZONE \/ Abs(dy) >= DEAD_ZONE) =>
                    /\ (Abs(dx) > Abs(dy) /\ dx > 0) => d = "right"
                    /\ (Abs(dx) > Abs(dy) /\ dx < 0) => d = "left"
                    /\ (Abs(dx) <= Abs(dy) /\ dy > 0) => d = "down"
                    /\ (Abs(dx) <= Abs(dy) /\ dy < 0) => d = "up"
                    /\ (Abs(dx) = Abs(dy)) => d \in {"up", "down"}

\* a diagonal tie outside the screen's dead zone has been classified
C3_Witness ==
    \E h \in Handlers :
        /\ hs[h].pc = "eye_compare"
        /\ hs[h].req.x = SCREEN_WIDTH \div 2 - (DEAD_ZONE + 1)
        /\ hs[h].req.y = SCREEN_HEIGHT \div 2 - (DEAD_ZONE + 1)
        /\ hs[h].new_direction = "up"

\* C4: once two /toggle_eye_tracking requests have been received and both
\* have completed, eye_tracking_enabled has the value it had before the first.
C4_ToggleTwice ==
    (nToggle = 2 /\ \A h \in Handlers : ~(Busy(h) /\ hs[h].req.route = "toggle"))
        => eye_tracking_enabled = toggle_base

\* C5: eye_tracking_enabled starts false; only the store of a toggle changes
\* it; a single toggle from the initial state answers true, and a /status that
\* reads the flag after that toggle has completed reports true.
C5_OnlyToggle ==
    /\ eye_tracking_enabled = FALSE
    /\ [][ /\ eye_tracking_enabled' # eye_tracking_enabled =>
                \E h \in Handlers : hs[h].pc = "toggle_write" /\ hs'[h].pc = "toggle_respond"
           /\ \A h \in Handlers :
                (/\ hs[h].pc = "status_enabled" /\ Stepped(h)
                 /\ nToggle = 1
                 /\ \A g \in Handlers : ~(Busy(g) /\ hs[g].req.route = "toggle"))
                    => hs'[h].resp.eye_tracking_enabled = TRUE ]_vars
    /\ [](\A h \in Handlers :
            (hs[h].pc = "done" /\ hs[h].req.route = "toggle" /\ nToggle = 1)
                => hs[h].resp.eye_tracking_enabled = TRUE)

\* after one toggle, a status request has reported the flag as true
C5_Witness ==
    /\ nToggle = 1
    /\ eye_tracking_enabled = TRUE
    /\ \E h \in Handlers :
        /\ hs[h].pc = "done" /\ hs[h].req.route = "status"
        /\ hs[h].resp.eye_tracking_enabled = TRUE

\* C6: a /status that reads game_running after an emulator call inside the
\* loop of run_game has raised and run_game has ended reports
\* game_running = false.
C6_GameStopped ==
    [][ \A h \in Handlers :
          (/\ hs[h].pc = "status_game" /\ Stepped(h)
           /\ raised = "loop" /\ pc = "done")
              => hs'[h].resp.game_running = FALSE ]_vars

\* C7: no request handler ever makes an emulator call.
C7_NoHandlerCall == \A h \in Handlers : hs[h].calls = << >>

\* C8 (as stated): /status answers last_update = null exactly when
\* current_direction has never changed (no /eye_data request being between
\* its write of the direction and its write of the time).
C8_NullIffNeverChanged ==
    [][ \A h \in Handlers :
          (/\ hs[h].pc = "status_condition" /\ Stepped(h)
           /\ \A g \in Handlers : hs[g].pc # "eye_write_time")
              => ((hs'[h].pc = "done") <=> ~dirChanged) ]_vars

\* C8 (amended): /status answers last_update = null exactly when no /eye_data
\* request has recorded a direction change by the time status tests
\* last_eye_update, and otherwise answers the clock value it sampled minus the
\* time of the last direction change recorded by /eye_data; /control press and
\* release do not count.
C8_SinceLastGazeChange ==
    [][ \A h \in Handlers :
          /\ (hs[h].pc = "status_condition" /\ Stepped(h)) =>
                /\ (hs'[h].pc = "done") <=> (eyeChangeAt = 0)
                /\ hs'[h].pc = "done" => hs'[h].resp.last_update_null
          /\ (hs[h].pc = "status_subtract" /\ Stepped(h)) =>
                /\ ~hs'[h].resp.last_update_null
                /\ hs'[h].resp.last_update = hs[h].t - eyeChangeAt ]_vars

\* /eye_data recorded a direction change at time 1 and a status sampled at
\* time 2 reports one unit elapsed
C8_Witness ==
    /\ eyeChangeAt = 1
    /\ \E h \in Handlers :
        /\ hs[h].pc = "done" /\ hs[h].req.route = "status"
        /\ ~hs[h].resp.last_update_null
        /\ hs[h].resp.last_update = 1

\* C9: a /control request with an unknown direction, an unknown button or an
\* unknown action changes none of current_direction, eye_tracking_enabled and
\* last_eye_update, makes no emulator call, and is answered 'success'.
InvalidControl(r) ==
    /\ r.route = "control" /\ r.json
    /\ \/ r.action = "press" /\ r.direction \notin Directions
       \/ r.action = "button" /\ r.button \notin Buttons
       \/ r.action \notin {"press", "release", "button"}

C9_InvalidIgnored ==
    /\ [][ \A h \in Handlers :
             (Stepped(h) /\ (InvalidControl(hs[h].req) \/ InvalidControl(hs'[h].req))) =>
                 /\ UNCHANGED <<current_direction, eye_tracking_enabled, last_eye_update>>
                 /\ hs'[h].calls = << >> ]_vars
    /\ [](\A h \in Handlers :
            (hs[h].pc = "done" /\ InvalidControl(hs[h].req)) => hs[h].resp = Success)

\* an unknown button has been answered while the emulator exists and a
\* direction is set
C9_Witness ==
    \E h \in Handlers :
        /\ hs[h].pc = "done"
        /\ hs[h].req.action = "button" /\ hs[h].req.button = "x"
        /\ hs[h].resp = Success
        /\ pyboy_instance # None
        /\ current_direction # None

\* C10: every step of a /control 'button' request taken while pyboy_instance
\* is None makes no emulator call and leaves current_direction,
\* eye_tracking_enabled and last_eye_update alone, and the test of
\* pyboy_instance then ends the request with 'success'.
ButtonRequest(r) == r.route = "control" /\ r.json /\ r.action = "button"

C10_NoEmulatorNoOp ==
    [][ \A h \in Handlers :
          (/\ Stepped(h) /\ pyboy_instance = None
           /\ (ButtonRequest(hs[h].req) \/ ButtonRequest(hs'[h].req))) =>
              /\ UNCHANGED <<current_direction, eye_tracking_enabled, last_eye_update>>
              /\ hs'[h].calls = << >>
              /\ hs[h].pc = "control_instance" =>
                    (hs'[h].pc = "done" /\ hs'[h].resp = Success) ]_vars

\* button 'a' has been answered 'success' with no emulator instance
C10_Witness ==
    \E h \in Handlers :
        /\ hs[h].pc = "done"
        /\ hs[h].req.action = "button" /\ hs[h].req.button = "a"
        /\ hs[h].resp = Success
        /\ hs[h].calls = << >>
        /\ pyboy_instance = None

\* C11: a /eye_data or /control request with a malformed body (no JSON
\* object, or for /eye_data a non-numeric x or y) is answered with status
\* 'error' and HTTP 400, and no step of it changes current_direction,
\* last_eye_update or eye_tracking_enabled or makes an emulator call.
Malformed(r) ==
    \/ r.route = "eye_data" /\ (~r.json \/ ~r.numeric)
    \/ r.route = "control" /\ ~r.json

C11_MalformedRejected ==
    /\ [][ \A h \in Handlers :
             (Stepped(h) /\ (Malformed(hs[h].req) \/ Malformed(hs'[h].req))) =>
                 /\ UNCHANGED <<current_direction, eye_tracking_enabled, last_eye_update>>
                 /\ hs'[h].calls = << >>
                 /\ hs'[h].pc \in {"done", "idle"} ]_vars
    /\ [](\A h \in Handlers :
            (hs[h].pc = "done" /\ Malformed(hs[h].req)) =>
                (hs[h].resp.status = "error" /\ hs[h].resp.http = 400))

\* a /eye_data request with a non-numeric coordinate has been answered 400
\* while a direction is set
C11_Witness ==
    \E h \in Handlers :
        /\ hs[h].pc = "done"
        /\ hs[h].req.route = "eye_data" /\ ~hs[h].req.numeric
        /\ hs[h].resp = Error400
        /\ current_direction # None

(* ---- the emulator calls of one iteration of run_game ---- *)
IsArrow(c) == c[1] \in {"press", "release"}
Arrows(calls) == SelectSeq(calls, IsArrow)
IsTick(c) == c[1] = "tick"
Ticks(calls) == Len(SelectSeq(calls, IsTick))
IterationDone == pc = "sleep"

\* C12: an iteration of the loop that has run to its end sent either no arrow
\* event at all, or exactly press d, tick, release d (and the idle tick) for
\* one direction d.
C12_PressTickRelease ==
    IterationDone =>
        \/ Arrows(loop_calls) = << >>
        \/ \E d \in Directions :
              loop_calls = << <<"press", d>>, <<"tick", "-">>, <<"release", d>>, <<"tick", "-">> >>

\* C13: once an emulator call of run_game has raised, run_game makes no
\* further send_input or tick call; run_game ends only through its finally
\* clause, where stop() is called exactly once if pyboy_instance was created
\* (and not at all if PyBoy(...) itself raised), and nothing follows it.
C13_StopOnExit ==
    /\ [][ /\ raised # "no" => loop_calls' = loop_calls
           /\ pc = "done" => UNCHANGED loopv
           /\ stop_calls' # stop_calls => (pc = "finally" /\ pc' = "done") ]_vars
    /\ [](pc = "done" => stop_calls = IF pyboy_instance # None THEN 1 ELSE 0)
    /\ [](pc # "done" => stop_calls = 0)

\* the tick after a press raised and run_game ended with one stop()
C13_Witness ==
    /\ pc = "done"
    /\ raised = "loop"
    /\ Len(loop_calls) = 1 /\ loop_calls[1][1] = "press"
    /\ stop_calls = 1

\* C14: an iteration of the loop that has run to its end ends with the idle
\* tick and made exactly two ticks if it sent a press and exactly one tick
\* otherwise.
C14_TickCount ==
    IterationDone =>
        /\ loop_calls # << >> /\ loop_calls[Len(loop_calls)] = <<"tick", "-">>
        /\ Ticks(loop_calls) = IF \E i \in 1..Len(loop_calls) : loop_calls[i][1] = "press"
                               THEN 2 ELSE 1

\* C15 (as stated): a /control 'button' request for a, b, start or select
\* that found the emulator instance ends having made exactly the calls
\* press(button), tick, release(button).
ValidButton(r) == ButtonRequest(r) /\ r.button \in Buttons
Triple(b) == << <<"press", b>>, <<"tick", "-">>, <<"release", b>> >>

C15_AlwaysAllThree ==
    \A h \in Handlers :
        (/\ hs[h].pc = "done" /\ ValidButton(hs[h].req)
         /\ (hs[h].calls # << >> \/ hs[h].resp.status = "error"))
            => hs[h].calls = Triple(hs[h].req.button)

\* C15 (amended): such a request, handled while pyboy_instance is set, makes
\* the calls press(button), tick, release(button) in that order for its own
\* button, whatever eye_tracking_enabled is, up to the first call that raises:
\* if none raises it has made exactly the three and answers 'success'; if one
\* raises it makes no call after it and answers 'error' (HTTP 400).  No step
\* of it changes current_direction, eye_tracking_enabled or last_eye_update.
C15_ButtonSequence ==
    /\ [][ \A h \in Handlers :
             (Stepped(h) /\ (ValidButton(hs[h].req) \/ ValidButton(hs'[h].req))) =>
                 /\ UNCHANGED <<current_direction, eye_tracking_enabled, last_eye_update>>
                 /\ (hs[h].pc = "control_instance" /\ pyboy_instance # None)
                        => hs'[h].pc = "button_press" ]_vars
    /\ [](\A h \in Handlers :
            ValidButton(hs[h].req) =>
                LET n == Len(hs[h].calls)
                IN  /\ n <= 3
                    /\ hs[h].calls = SubSeq(Triple(hs[h].req.button), 1, n)
                    /\ hs[h].pc = "button_press" => n = 0
                    /\ hs[h].pc = "button_tick" => n = 1
                    /\ hs[h].pc = "button_release" => n = 2
                    /\ (hs[h].pc = "done" /\ hs[h].resp.status = "success") => n \in {0, 3}
                    /\ (hs[h].pc = "done" /\ hs[h].resp.status = "error") =>
                            (n < 3 /\ hs[h].resp.http = 400))

\* 'start' has been pressed, ticked and released by the handler while eye
\* tracking is enabled
C15_Witness ==
    /\ eye_tracking_enabled
    /\ \E h \in Handlers :
        /\ hs[h].pc = "done"
        /\ hs[h].req.button = "start"
        /\ hs[h].calls = Triple("start")
        /\ hs[h].resp = Success

\* C16: run_game ends only when a call raised (PyBoy(...) included), and in
\* every fair behaviour in which it never ends a completed iteration, hence
\* the idle tick, recurs for ever, whatever the request threads do.
C16_LoopKeepsTicking ==
    /\ [](pc \in {"finally", "done"} => (raised # "no" \/ pyboy_instance = None))
    /\ ([](pc \notin {"finally", "done"}) => []<>(pc = "sleep"))

\* an iteration that injected a direction has run to its end after the last
\* request was received
C16_Witness ==
    /\ pc = "sleep"
    /\ Len(loop_calls) = 4
    /\ nReq = MaxRequests + 1

\* C17: the loop sends an arrow event only from its two if/elif chains, which
\* it enters only after line 62 read eye_tracking_enabled as true and then
\* current_direction as not None in the same iteration; so an iteration in
\* which the flag is false, or the direction None, at that check sends none.
C17_ArrowsOnlyAfterCheck ==
    /\ [][ /\ Len(Arrows(loop_calls')) > Len(Arrows(loop_calls)) => pc \in {"press", "release"}
           /\ (pc' = "check_direction" /\ pc # "check_direction")
                 => (pc = "check_enabled" /\ eye_tracking_enabled)
           /\ (pc' = "press" /\ pc # "press")
                 => (pc = "check_direction" /\ current_direction # None)
           /\ (pc' = "tick" /\ pc # "tick") => pc = "press"
           /\ (pc' = "release" /\ pc # "release") => pc = "tick"
           /\ (pc \in {"check_enabled", "check_direction"} /\ pc' = "idle_tick")
                 => loop_calls' = << >> ]_vars
    /\ [](pc \in {"press", "tick", "release"} => (nToggle >= 1 /\ dirChanged))
    /\ [](Arrows(loop_calls) # << >> => (nToggle >= 1 /\ dirChanged))

\* the loop has pressed and released 'up'
C17_Witness ==
    /\ pc = "idle_tick"
    /\ loop_calls = << <<"press", "up">>, <<"tick", "-">>, <<"release", "up">> >>

\* C18: the 'direction' of a successful /eye_data response is the classifier's
\* output for the request's own (x, y).
C18_ResponseDirection ==
    \A h \in Handlers :
        (hs[h].pc = "done" /\ WellFormedGaze(hs[h].req)) =>
            hs[h].resp.direction = get_direction_from_coords(hs[h].req.x, hs[h].req.y)

\* C19: once stop() has been called, neither run_game nor a request handler
\* makes a send_input or tick call.
C19_NoCallAfterStop ==
    [][ stop_calls >= 1 =>
          /\ loop_calls' = loop_calls
          /\ \A h \in Handlers : Len(hs'[h].calls) <= Len(hs[h].calls) ]_vars

====
